---- MODULE Spec2Model ----
(***************************************************************************)
(* Model of @intee/core: the Internationalization resolver (resolve, tag)  *)
(* and the memoize loader combinator.                                      *)
(*                                                                         *)
(* A resolver is a fixed list of sources 0..NumSources-1, source 0 being   *)
(* the fallback.  Each source has a tag, a predicate (a function from a    *)
(* locale to a number or a boolean, which may also throw) and a loader.    *)
(***************************************************************************)
EXTENDS Integers, Sequences, FiniteSets, TLC

\* ---------------------------------------------------------------- bounds
NumSources == 3      \* fallback plus NumSources - 1 other sources
MaxLocales == 2      \* distinct locales, and the longest preference list
MaxScore == 2        \* predicates return numbers in -MaxScore..MaxScore
MaxCalls == 2        \* resolve calls made on one resolver
MaxCallers == 4      \* calls made on one memoized loader
MaxTagCalls == 2     \* calls of tag() on one heap

Sources == 0..(NumSources - 1)
Fallback == 0
Locales == 1..MaxLocales
Calls == 1..MaxCalls

\* Every preference list of at most MaxLocales locales, the empty one included.
LocaleLists == UNION {[1..n -> Locales] : n \in 0..MaxLocales}

\* ------------------------------------------------- values and objects
\* What a predicate call can do: return a number, return a boolean (n is 1
\* for true and 0 for false), return NaN, or throw.
NumReturns == [k : {"num"}, n : (-MaxScore)..MaxScore]
BoolReturns == [k : {"bool"}, n : {0, 1}]
NaN == [k |-> "nan", n |-> 0]
Throws == [k |-> "throw", n |-> 0]
EdgeReturns == [k : {"num"}, n : {-1, 0, 1}] \cup BoolReturns \cup {NaN, Throws}

\* Property keys of an object: strings and symbols are different keys even
\* when a string spells the symbol's description.
StringKey(name) == [kind |-> "string", description |-> name]
Tag == [kind |-> "symbol", description |-> "Internationalization.Tag"]
MarkerName == StringKey("Internationalization.Tag")
Hello == StringKey("hello")

\* Object.assign(target, src) on plain data properties: src's own properties
\* are written over target's.
ObjectAssign(target, src) ==
  [key \in (DOMAIN target) \cup (DOMAIN src) |->
     IF key \in DOMAIN src THEN src[key] ELSE target[key]]

EmptyObject == [key \in {} |-> <<"text", 0>>]

\* A mutation of tag: the marker is written under a string key.
tagStringKey(t, tagValue) ==
  ObjectAssign(ObjectAssign(EmptyObject, t), [key \in {MarkerName} |-> tagValue])

\* tag(t, tag) = Object.assign({}, t, {[Tag]: tag})
tag(t, tagValue) ==
  ObjectAssign(ObjectAssign(EmptyObject, t), [key \in {Tag} |-> tagValue])

\* The tag of source s and what its loader produces when it succeeds.
TagOf(s) == <<"tag", s>>
Content(s) == [key \in {Hello} |-> <<"text", s>>]

\* ------------------------------------------------------------ scoring
NoError == <<"none", 0, 0>>
PredicateError(s, locale) == <<"predicate", s, locale>>
LoaderError(s) == <<"loader", s, 0>>

\* Number(x): true is 1, false is 0, a number is itself.
Number(r) == IF r.k = "bool" THEN [k |-> "num", n |-> r.n] ELSE r

\* A mutation of Math.abs: the sign is kept.
MathAbsIdentity(r) == r

\* Math.abs(x); NaN stays NaN.
MathAbs(r) ==
  IF r.k = "num" THEN [k |-> "num", n |-> IF r.n < 0 THEN -r.n ELSE r.n] ELSE r

\* A mutation of the comparison: greater-or-equal, so a later source wins a tie.
GreaterOrEqual(score, max) == score.k = "num" /\ score.n >= max

\* score > max, where max is a number; false when score is NaN.
GreaterThan(score, max) == score.k = "num" /\ score.n > max

\* The state of the loops of resolve: the locals max and source, the error
\* thrown by a predicate (if any), and the predicate calls made so far.
InitialScan ==
  [max |-> 0, source |-> Fallback, error |-> NoError, consulted |-> {}]

\* The inner loop, for (const s of this.sources), from source s on, for the
\* locale at position pos.
RECURSIVE ScanSources(_, _, _, _, _)
ScanSources(preds, st, locale, pos, s) ==
  IF s \notin Sources \/ st.error # NoError THEN st
  ELSE
    LET returned == preds[s][locale]
        seen == st.consulted \cup {<<s, pos>>}
    IN IF returned = Throws
       THEN [st EXCEPT !.error = PredicateError(s, locale), !.consulted = seen]
       ELSE LET score == MathAbs(Number(returned))
                st2 == IF GreaterThan(score, st.max)
                       THEN [st EXCEPT !.max = score.n, !.source = s,
                                       !.consulted = seen]
                       ELSE [st EXCEPT !.consulted = seen]
            IN ScanSources(preds, st2, locale, pos, s + 1)

\* A mutation of the outer loop: it never breaks, every locale is scanned.
RECURSIVE ScanLocalesNoBreak(_, _, _, _)
ScanLocalesNoBreak(preds, st, locales, pos) ==
  IF pos > Len(locales) \/ st.error # NoError THEN st
  ELSE ScanLocalesNoBreak(preds, ScanSources(preds, st, locales[pos], pos, 0),
                          locales, pos + 1)

\* The outer loop, for (const locale of locales), from position pos on,
\* with its break once max > 0.
RECURSIVE ScanLocales(_, _, _, _)
ScanLocales(preds, st, locales, pos) ==
  IF pos > Len(locales) \/ st.error # NoError THEN st
  ELSE LET st2 == ScanSources(preds, st, locales[pos], pos, 0)
       IN IF st2.error # NoError \/ st2.max > 0 THEN st2
          ELSE ScanLocales(preds, st2, locales, pos + 1)

\* The synchronous part of resolve up to the call of the loader.
Select(preds, locales) == ScanLocales(preds, InitialScan, locales, 1)

VARIABLES
  predicate,    \* resolver: predicate[s][locale] is what source s's predicate does
  calls,        \* resolver: the resolve calls, numbered in the order they start
  loaderCalls,  \* resolver: how many times each source's loader was invoked
  heap,         \* tag: the objects that exist, by reference
  tagLog,       \* tag: the calls of tag made so far
  promise,      \* memoize: the closure variable promise (0 is undefined)
  promises,     \* memoize: the state of each promise the loader returned
  invocations,  \* memoize: how many times the wrapped loader was invoked
  callers       \* memoize: what each call of the memoized loader got

resolverVars == <<predicate, calls, loaderCalls>>
tagVars == <<heap, tagLog>>
memoVars == <<promise, promises, invocations, callers>>
vars == <<predicate, calls, loaderCalls, heap, tagLog, promise, promises,
          invocations, callers>>

\* ----------------------------------------------------------- resolver
\* A call of resolve: its status, its argument, its locals source and the
\* predicate calls it made, the state of the promise its loader returned
\* (none, pending, fulfilled, rejected), and what it yields: an error when
\* rejected, a result (a sequence of one object) when fulfilled.
IdleCall ==
  [status |-> "idle", locales |-> <<>>, source |-> Fallback, consulted |-> {},
   loader |-> "none", error |-> NoError, result |-> <<>>]

Started(c) == calls[c].status # "idle"

\* A mutation of the loader call: a source's content is fetched once and kept
\* by the resolver, later calls with the same winner do not invoke the loader.
InvokeLoaderCached(counts, s) ==
  IF counts[s] = 0 THEN [counts EXCEPT ![s] = 1] ELSE counts

\* source.loader() is invoked once.
InvokeLoader(counts, s) == [counts EXCEPT ![s] = @ + 1]

\* A mutation of the continuation of resolve: the winner is read from a field
\* the calls share, which holds the winner of the call started last.
SourceSharedField(cs, c) ==
  LET last == CHOOSE d \in Calls :
                /\ cs[d].status # "idle"
                /\ \A e \in Calls : cs[e].status # "idle" => e <= d
  IN cs[last].source

\* The local variable source of call c, read after the await.
SourceAfterAwait(cs, c) == cs[c].source

\* A mutation of the await: the failure is caught and the fallback's content
\* is returned in its place.
CatchAndUseFallback(call, err) ==
  [call EXCEPT !.status = "fulfilled",
               !.result = <<tag(Content(Fallback), TagOf(Fallback))>>]

\* await source.loader() stands in no try block: the failure of the loader
\* is the failure of resolve.
Propagate(call, err) == [call EXCEPT !.status = "rejected", !.error = err]

\* resolve(...locales) up to its await: the scoring loops run to their end
\* without suspending; a predicate that throws rejects the call; otherwise the
\* winner's loader is invoked and the call suspends on what it returned.
Resolve(c, locales) ==
  /\ calls[c].status = "idle"
  /\ \A d \in Calls : d < c => Started(d)
  /\ LET st == Select(predicate, locales)
         entered == [IdleCall EXCEPT !.locales = locales, !.source = st.source,
                                     !.consulted = st.consulted]
     IN IF st.error # NoError
        THEN /\ calls' = [calls EXCEPT ![c] = Propagate(entered, st.error)]
             /\ UNCHANGED loaderCalls
        ELSE /\ calls' = [calls EXCEPT ![c] =
                   [entered EXCEPT !.status = "awaiting", !.loader = "pending"]]
             /\ loaderCalls' = InvokeLoader(loaderCalls, st.source)
  /\ UNCHANGED <<predicate, tagVars, memoVars>>

\* The loader of call c produced its content: resolve returns it tagged with
\* source.tag.
LoaderFulfils(c) ==
  /\ calls[c].status = "awaiting"
  /\ LET s == SourceAfterAwait(calls, c)
     IN calls' = [calls EXCEPT ![c].status = "fulfilled",
                               ![c].loader = "fulfilled",
                               ![c].result = <<tag(Content(s), TagOf(s))>>]
  /\ UNCHANGED <<predicate, loaderCalls, tagVars, memoVars>>

\* The loader of call c threw or rejected: resolve rejects with that failure.
\* (A loader that throws before returning rejects resolve's promise as well;
\* the caller sees either failure when the promise settles.)
LoaderFails(c) ==
  /\ calls[c].status = "awaiting"
  /\ calls' = [calls EXCEPT ![c] =
       Propagate([calls[c] EXCEPT !.loader = "rejected"],
                 LoaderError(calls[c].source))]
  /\ UNCHANGED <<predicate, loaderCalls, tagVars, memoVars>>

\* ---------------------------------------------------------------- tag
\* The payloads tag is applied to: any of the keys hello, the string key that
\* spells the marker's description, and the marker itself (an object that was
\* tagged before), each with one of a few values.
TagValues == {TagOf(s) : s \in Sources}
PayloadValues == {<<"text", 0>>, TagOf(Fallback)}
PayloadKeys == {Hello, MarkerName, Tag}
Payloads == UNION {[keys -> PayloadValues] : keys \in SUBSET PayloadKeys}

\* tag(t, tag) on the heap: Object.assign's target {} is a new object, the
\* payload is only read.
TagOnHeap(h, ref, tagValue) ==
  [heap |-> Append(h, tag(h[ref], tagValue)), ref |-> Len(h) + 1]

\* A call tag(heap[ref], tagValue).
TagCall(ref, tagValue) ==
  /\ Len(tagLog) < MaxTagCalls
  /\ ref \in DOMAIN heap
  /\ LET r == TagOnHeap(heap, ref, tagValue)
     IN /\ heap' = r.heap
        /\ tagLog' = Append(tagLog, [input |-> ref, before |-> heap[ref],
                                     tagValue |-> tagValue, output |-> r.ref])
  /\ UNCHANGED <<resolverVars, memoVars>>

\* ------------------------------------------------------------ memoize
Callers == 1..MaxCallers
Undefined == 0
IdleCaller == [status |-> "idle", got |-> Undefined, saw |-> "nothing"]

\* The memoized loader, () => (promise ||= loader()), called by caller c.
\* When promise is set it is returned and the loader is not invoked.
\* Otherwise the loader is invoked; if it returns a promise, that promise is
\* stored and returned; if it throws before returning one, the exception
\* leaves the assignment undone and reaches the caller.  Callers are numbered
\* in the order in which they call.
MemoizedCall(c, loaderThrows) ==
  /\ callers[c].status = "idle"
  /\ \A d \in Callers : d < c => callers[d].status # "idle"
  /\ IF promise # Undefined
     THEN /\ callers' = [callers EXCEPT ![c] = [status |-> "returned", got |-> promise, saw |-> "nothing"]]
          /\ UNCHANGED <<promise, promises, invocations>>
     ELSE /\ invocations' = invocations + 1
          /\ IF loaderThrows
             THEN /\ callers' = [callers EXCEPT ![c] =
                        [status |-> "threw", got |-> Undefined, saw |-> "nothing"]]
                  /\ UNCHANGED <<promise, promises>>
             ELSE /\ promises' = Append(promises, "pending")
                  /\ promise' = Len(promises) + 1
                  /\ callers' = [callers EXCEPT ![c] =
                        [status |-> "returned", got |-> Len(promises) + 1,
                         saw |-> "nothing"]]
  /\ UNCHANGED <<resolverVars, tagVars>>

\* The operation behind promise p settles.
Settle(p, outcome) ==
  /\ p \in DOMAIN promises
  /\ promises[p] = "pending"
  /\ promises' = [promises EXCEPT ![p] = outcome]
  /\ UNCHANGED <<promise, invocations, callers, resolverVars, tagVars>>

\* Caller c, awaiting the promise it got, sees how it settled.
Observe(c) ==
  /\ callers[c].status = "returned"
  /\ promises[callers[c].got] # "pending"
  /\ callers' = [callers EXCEPT ![c].status = "observed",
                                ![c].saw = promises[callers[c].got]]
  /\ UNCHANGED <<promise, promises, invocations, resolverVars, tagVars>>

\* ----------------------------------------------------- specifications
ZeroPredicates == [s \in Sources |-> [l \in Locales |-> [k |-> "num", n |-> 0]]]

ResolverIdle(preds) ==
  /\ predicate = preds
  /\ calls = [c \in Calls |-> IdleCall]
  /\ loaderCalls = [s \in Sources |-> 0]

TagIdle == heap = <<>> /\ tagLog = <<>>

MemoIdle ==
  /\ promise = Undefined
  /\ promises = <<>>
  /\ invocations = 0
  /\ callers = [c \in Callers |-> IdleCaller]

\* A resolver whose predicates return numbers, and one call of resolve on it.
Init ==
  /\ \E preds \in [Sources -> [Locales -> NumReturns]] : ResolverIdle(preds)
  /\ TagIdle
  /\ MemoIdle

Next ==
  \/ \E locales \in LocaleLists : Resolve(1, locales)
  \/ LoaderFulfils(1)
  \/ LoaderFails(1)

Spec == Init /\ [][Next]_vars

\* A resolver whose predicates may also return booleans or NaN, or throw,
\* and one call of resolve on it.
InitEdge ==
  /\ \E preds \in [Sources -> [Locales -> EdgeReturns]] : ResolverIdle(preds)
  /\ TagIdle
  /\ MemoIdle

SpecEdge == InitEdge /\ [][Next]_vars

\* A resolver whose predicates return booleans, as those built by startsWith,
\* endsWith, is, isOneOf and matches do, and up to MaxCalls calls of resolve
\* on it, concurrent or one after the other.
InitCalls ==
  /\ \E preds \in [Sources -> [Locales -> BoolReturns]] : ResolverIdle(preds)
  /\ TagIdle
  /\ MemoIdle

NextCalls ==
  \E c \in Calls :
    \/ \E locales \in LocaleLists : Resolve(c, locales)
    \/ LoaderFulfils(c)
    \/ LoaderFails(c)

SpecCalls == InitCalls /\ [][NextCalls]_vars

\* A payload on the heap and up to MaxTagCalls calls of tag.
InitTag ==
  /\ ResolverIdle(ZeroPredicates)
  /\ \E payload \in Payloads : heap = <<payload>>
  /\ tagLog = <<>>
  /\ MemoIdle

NextTag == \E ref \in 1..(MaxTagCalls + 1), tagValue \in TagValues : TagCall(ref, tagValue)

SpecTag == InitTag /\ [][NextTag]_vars

\* One memoized loader and up to MaxCallers calls of it.
InitMemo ==
  /\ ResolverIdle(ZeroPredicates)
  /\ TagIdle
  /\ MemoIdle

NextMemo ==
  \/ \E c \in Callers, loaderThrows \in BOOLEAN : MemoizedCall(c, loaderThrows)
  \/ \E p \in Callers, outcome \in {"fulfilled", "rejected"} : Settle(p, outcome)
  \/ \E c \in Callers : Observe(c)

SpecMemo == InitMemo /\ [][NextMemo]_vars

\* ------------------------------------------------------------- claims
\* What the claims speak of, stated without the loops of resolve.

\* The magnitude of what a predicate returned: |n| for a number, 1 and 0 for
\* true and false, and 0 for NaN, which is greater than nothing.
Magnitude(r) ==
  IF r.k \in {"num", "bool"} THEN (IF r.n < 0 THEN -r.n ELSE r.n) ELSE 0

Least(S) == CHOOSE x \in S : \A y \in S : x <= y
Greatest(S) == CHOOSE x \in S : \A y \in S : y <= x

\* The positions of a preference list at which some source matches.
MatchPositions(locales) ==
  {i \in DOMAIN locales :
     \E s \in Sources : Magnitude(predicate[s][locales[i]]) > 0}

\* The sources that reach the highest magnitude for a locale.
BestSources(locale) ==
  {s \in Sources :
     \A other \in Sources :
       Magnitude(predicate[other][locale]) <= Magnitude(predicate[s][locale])}

\* The source a call with this preference list is to select.
ExpectedWinner(locales) ==
  IF MatchPositions(locales) = {} THEN Fallback
  ELSE Least(BestSources(locales[Least(MatchPositions(locales))]))

TaggedContent(s) == tag(Content(s), TagOf(s))

\* C2: when position i is the first at which some source scores above zero
\* (the score being the magnitude resolve computes), the winner is the best
\* source for the locale at position i alone, and no predicate is called for
\* a locale at a position after i.
C2_FirstPositiveLocaleWins ==
  \A c \in Calls :
    (Started(c) /\ MatchPositions(calls[c].locales) # {}) =>
      LET i == Least(MatchPositions(calls[c].locales))
      IN /\ calls[c].source = Least(BestSources(calls[c].locales[i]))
         /\ \A sp \in calls[c].consulted : sp[2] <= i

\* C2 witness: a call settled on the locale at position 1 although a source
\* scores strictly higher for the locale at position 2.
C2_Witness ==
  /\ calls[1].status = "fulfilled"
  /\ Len(calls[1].locales) = 2
  /\ Least(MatchPositions(calls[1].locales)) = 1
  /\ \E s \in Sources :
       /\ s # calls[1].source
       /\ Magnitude(predicate[s][calls[1].locales[2]])
            > Magnitude(predicate[calls[1].source][calls[1].locales[1]])

C4_LaterSourceWinsTie ==
  \A c \in Calls :
    (Started(c) /\ MatchPositions(calls[c].locales) # {}) =>
      LET i == Least(MatchPositions(calls[c].locales))
      IN calls[c].source = Greatest(BestSources(calls[c].locales[i]))

\* The locales of a preference list.
Listed(locales) == {locales[i] : i \in DOMAIN locales}

\* The table of predicates with the scores of the cells in flipped negated.
Negated(preds, flipped) ==
  [s \in Sources |-> [l \in Locales |->
     IF <<s, l>> \in flipped /\ preds[s][l].k = "num"
     THEN [k |-> "num", n |-> -preds[s][l].n] ELSE preds[s][l]]]

\* C9: negating any of the scores the predicates return for the listed locales
\* changes neither the source selected nor the predicate calls made, that is,
\* the position at which the scan of the locales stops.
C9_SignIsDiscarded ==
  \A c \in Calls :
    Started(c) =>
      \A flipped \in SUBSET (Sources \X Listed(calls[c].locales)) :
        LET other == Select(Negated(predicate, flipped), calls[c].locales)
        IN /\ other.source = calls[c].source
           /\ other.consulted = calls[c].consulted

\* C9 witness: a negative score beat a smaller positive one, and stopped the
\* scan before the second locale.
C9_Witness ==
  /\ calls[1].status = "fulfilled"
  /\ Len(calls[1].locales) = 2
  /\ predicate[calls[1].source][calls[1].locales[1]].n < 0
  /\ \E s \in Sources : predicate[s][calls[1].locales[1]].n > 0
  /\ \A sp \in calls[1].consulted : sp[2] = 1

\* A predicate returned a positive score: a number above zero, or true.
ReturnsPositive(r) == r.k \in {"num", "bool"} /\ r.n > 0

NoMatch(locales) ==
  \A l \in Listed(locales), s \in Sources :
    predicate[s][l] # Throws /\ Magnitude(predicate[s][l]) = 0

LoaderCallsAccountedFor ==
  \A s \in Sources :
    loaderCalls[s] =
      Cardinality({c \in Calls : calls[c].loader # "none" /\ calls[c].source = s})

\* C6: a call that reached a throwing predicate is rejected with that
\* predicate's failure and invokes no loader; a call whose loader failed is
\* rejected with that loader's failure; either way it yields no result, and
\* no loader is invoked again or in the failed one's place.
C6_FailuresPropagate ==
  /\ LoaderCallsAccountedFor
  /\ \A c \in Calls :
       /\ (Started(c) /\ \E sp \in calls[c].consulted :
              predicate[sp[1]][calls[c].locales[sp[2]]] = Throws) =>
            /\ calls[c].status = "rejected"
            /\ calls[c].error[1] = "predicate"
            /\ <<calls[c].error[2], calls[c].error[3]>> \in
                 {<<sp[1], calls[c].locales[sp[2]]>> : sp \in calls[c].consulted}
            /\ predicate[calls[c].error[2]][calls[c].error[3]] = Throws
            /\ calls[c].loader = "none"
            /\ calls[c].result = <<>>
       /\ calls[c].loader = "rejected" =>
            /\ calls[c].status = "rejected"
            /\ calls[c].error = LoaderError(calls[c].source)
            /\ calls[c].result = <<>>

\* C6 witness: the loader of a winner other than the fallback failed, the call
\* is rejected and the fallback's loader was not invoked.
C6_Witness ==
  /\ calls[1].status = "rejected"
  /\ calls[1].loader = "rejected"
  /\ calls[1].source # Fallback
  /\ loaderCalls[Fallback] = 0
  /\ loaderCalls[calls[1].source] = 1

\* The predicate calls a call with this preference list is to make: those of
\* every source for every locale up to the first one that matches.
ExpectedConsulted(locales) ==
  Sources \X (1..(IF MatchPositions(locales) = {} THEN Len(locales)
                  ELSE Least(MatchPositions(locales))))

\* C7: every call scores anew and invokes the loader of its own winner once,
\* and no other loader: the loader of a source was invoked as many times as
\* there are calls that selected it.
C7_NoCachingAcrossCalls ==
  /\ LoaderCallsAccountedFor
  /\ \A c \in Calls :
       Started(c) =>
         /\ calls[c].consulted = ExpectedConsulted(calls[c].locales)
         /\ calls[c].source = ExpectedWinner(calls[c].locales)
         /\ calls[c].loader # "none"

\* C7 witness: two calls selected the same source other than the fallback,
\* both completed, and its loader was invoked twice.
C7_Witness ==
  /\ calls[1].status = "fulfilled"
  /\ calls[2].status = "fulfilled"
  /\ calls[1].source = calls[2].source
  /\ calls[1].source # Fallback
  /\ loaderCalls[calls[1].source] = 2

\* C10: a suspended call has its winner already, and whatever the order in
\* which the loaders of concurrent calls settle, a call yields the content
\* and tag (or the loader failure) of the winner of its own preference list.
C10_ConcurrentCallsIndependent ==
  \A c \in Calls :
    /\ calls[c].status = "awaiting" =>
         /\ calls[c].source = ExpectedWinner(calls[c].locales)
         /\ calls[c].loader = "pending"
    /\ calls[c].status = "fulfilled" =>
         calls[c].result = <<TaggedContent(ExpectedWinner(calls[c].locales))>>
    /\ calls[c].status = "rejected" =>
         calls[c].error = LoaderError(ExpectedWinner(calls[c].locales))

\* C10 witness: the second call completed while the first, which selected
\* another source, is still suspended.
C10_Witness ==
  /\ calls[1].status = "awaiting"
  /\ calls[2].status = "fulfilled"
  /\ calls[1].source # calls[2].source
  /\ calls[2].result = <<TaggedContent(calls[2].source)>>

\* C5 (as claimed): the wrapped loader is invoked at most once, and all
\* callers get the same operation and see the same result.
C5_LoaderInvokedAtMostOnce ==
  /\ invocations <= 1
  /\ \A c, d \in Callers :
       (callers[c].status # "idle" /\ callers[d].status # "idle") =>
         /\ callers[c].got = callers[d].got
         /\ (callers[c].status = "observed" /\ callers[d].status = "observed") =>
              callers[c].saw = callers[d].saw

\* C8: the marker of tag(payload, t) reads t, every other field of the
\* payload (a string field spelled like the marker included) is in the result
\* unchanged, and the payload is as it was before the call.
C8_TagRoundTrip ==
  \A i \in DOMAIN tagLog :
    LET e == tagLog[i]
    IN /\ e.output \in DOMAIN heap
       /\ Tag \in DOMAIN heap[e.output]
       /\ heap[e.output][Tag] = e.tagValue
       /\ DOMAIN heap[e.output] = (DOMAIN e.before) \cup {Tag}
       /\ \A key \in (DOMAIN e.before) \ {Tag} : heap[e.output][key] = e.before[key]
       /\ heap[e.input] = e.before

\* C8 witness: a payload with a string field spelled like the marker, holding
\* another value than the tag, was tagged.
C8_Witness ==
  \E i \in DOMAIN tagLog :
    /\ MarkerName \in DOMAIN tagLog[i].before
    /\ Tag \notin DOMAIN tagLog[i].before
    /\ tagLog[i].before[MarkerName] # tagLog[i].tagValue
    /\ heap[tagLog[i].output][MarkerName] = tagLog[i].before[MarkerName]

====
